---- MODULE Spec2Model ----
(***************************************************************************)
(* A model of cozowow (src/src/cozowow/main.py): the literal formatters,  *)
(* the script builders and the CozoDB facade over the pycozo client.       *)
(*                                                                         *)
(* Text is modelled as a sequence of tokens.  The characters of a Python   *)
(* string value are one token each, so that quoting and escaping are done  *)
(* character by character as str.replace does; identifiers (column and     *)
(* relation names) and the fixed fragments of the f-strings are one token  *)
(* each.  String concatenation is \o.                                      *)
(***************************************************************************)
EXTENDS Integers, Sequences, FiniteSets, TLC

VARIABLES
    scope,       \* "plain": constructed; "with": inside a with block; "exited"
    phase,       \* the client handle: "open" or "closed"
    requests,    \* number of calls the client has received (run, put, rm, close)
    call,        \* the facade call made last, with its arguments
    sent,        \* the requests that call issued to the client, with the replies
    logged,      \* the errors that call logged through logger.error
    result,      \* how that call ended: returned, or raised which error
    propagated,  \* the exception that left the with block, if any
    fin,         \* formatter harness: the value to format
    fout,        \* formatter harness: the literal produced
    fpc,         \* formatter harness: "input", "value" or "validity"
    tpc,         \* transaction scope: "off", "idle", "open", "raised" or "done"
    tops,        \* transaction scope: the calls made on the transaction handle
    terr         \* transaction scope: the error in flight or leaving the scope

vars == <<scope, phase, requests, call, sent, logged, result, propagated,
          fin, fout, fpc, tpc, tops, terr>>
facadeVars == <<scope, phase, requests, call, sent, logged, result, propagated>>
fmtVars == <<fin, fout, fpc>>
txnVars == <<tpc, tops, terr>>

-----------------------------------------------------------------------------
(* Bounds *)

MaxStrLen == 3      \* longest Python string given to the formatters
MaxRows == 2        \* longest list of rows given to a mutation
MaxRequests == 2    \* requests a run makes before the handle is released
MaxStmts == 2       \* statements run inside one transaction scope

-----------------------------------------------------------------------------
(* Python values *)

DQ == "\""
BS == "\\"

StrV(s) == [t |-> "str", s |-> s, n |-> 0, b |-> FALSE]
IntV(n) == [t |-> "int", s |-> <<>>, n |-> n, b |-> FALSE]
BoolV(b) == [t |-> "bool", s |-> <<>>, n |-> 0, b |-> b]
NoneV == [t |-> "none", s |-> <<>>, n |-> 0, b |-> FALSE]
\* a two-element list [number, bool], the shape of a Validity
PairV(n, b) == [t |-> "pair", s |-> <<>>, n |-> n, b |-> b]

RECURSIVE Flatten(_)
Flatten(ss) == IF ss = <<>> THEN <<>> ELSE Head(ss) \o Flatten(Tail(ss))

\* sep.join(parts), parts a sequence of token sequences
RECURSIVE Join(_, _)
Join(parts, sep) ==
    IF parts = <<>> THEN <<>>
    ELSE IF Len(parts) = 1 THEN Head(parts)
    ELSE Head(parts) \o sep \o Join(Tail(parts), sep)

\* a sequence of names as a sequence of one-token texts
Names(cols) == [i \in 1..Len(cols) |-> <<cols[i]>>]

COMMA == <<", ">>
NL == <<"\n">>

\* str(val) for the values modelled
PyBool(b) == IF b THEN "True" ELSE "False"
PyStr(val) ==
    CASE val.t = "str" -> val.s
      [] val.t = "int" -> <<ToString(val.n)>>
      [] val.t = "bool" -> <<PyBool(val.b)>>
      [] val.t = "none" -> <<"None">>
      [] val.t = "pair" -> <<"[", ToString(val.n), ", ", PyBool(val.b), "]">>

\* val.replace('"', '\\"')
RECURSIVE ReplaceQuote(_)
ReplaceQuote(s) ==
    IF s = <<>> THEN <<>>
    ELSE (IF Head(s) = DQ THEN <<BS, DQ>> ELSE <<Head(s)>>) \o ReplaceQuote(Tail(s))

JsBool(b) == IF b THEN "true" ELSE "false"

format_value(val) ==
    IF val.t = "str" THEN <<DQ>> \o ReplaceQuote(val.s) \o <<DQ>>
    ELSE IF val.t = "bool" THEN <<JsBool(val.b)>>
    ELSE IF val.t = "none" THEN <<"null">>
    ELSE IF val.t = "pair" THEN <<"[", ToString(val.n), ", ", JsBool(val.b), "]">>
    ELSE PyStr(val)

\* str.upper() on the characters used
Upper(c) ==
    CASE c = "n" -> "N" [] c = "o" -> "O" [] c = "w" -> "W"
      [] c = "e" -> "E" [] c = "d" -> "D" [] c = "a" -> "A"
      [] OTHER -> c
UpperStr(s) == [i \in 1..Len(s) |-> Upper(s[i])]

ValidityKeywords ==
    { <<"N", "O", "W">>, <<"E", "N", "D">>,
      <<"A", "S", "S", "E", "R", "T">>, <<"R", "E", "T", "R", "A", "C", "T">> }

format_validity(val) ==
    IF val.t = "str" /\ UpperStr(val.s) \in ValidityKeywords
    THEN <<"'">> \o UpperStr(val.s) \o <<"'">>
    \* isinstance(val, (int, list)): a bool is an int in Python
    ELSE IF val.t \in {"int", "bool", "pair"} THEN PyStr(val)
    ELSE format_value(val)

-----------------------------------------------------------------------------
(* The formatter harness: a value is drawn and one formatter applied to it *)

Alphabet == {"a", DQ, BS}

RECURSIVE StringsUpTo(_)
StringsUpTo(n) ==
    IF n = 0 THEN {<<>>}
    ELSE LET shorter == StringsUpTo(n - 1)
         IN shorter \cup {Append(s, c) : s \in {x \in shorter : Len(x) = n - 1}, c \in Alphabet}

FmtInputs ==
    {StrV(s) : s \in StringsUpTo(MaxStrLen)}
    \cup {StrV(<<"n", "o", "w">>), StrV(<<"E", "n", "d">>)}
    \cup {BoolV(TRUE), BoolV(FALSE), NoneV, IntV(7), IntV(2019)}
    \cup {PairV(2019, TRUE), PairV(2001, FALSE)}

FmtInit ==
    /\ fin \in FmtInputs
    /\ fout = <<>>
    /\ fpc = "input"

FormatValue ==
    /\ fpc = "input"
    /\ fout' = format_value(fin)
    /\ fpc' = "value"
    /\ UNCHANGED <<fin, facadeVars, txnVars>>

FormatValidity ==
    /\ fpc = "input"
    /\ fout' = format_validity(fin)
    /\ fpc' = "validity"
    /\ UNCHANGED <<fin, facadeVars, txnVars>>

-----------------------------------------------------------------------------
(* RelationSpec, QueryOptions, ChainQuery *)

RelationSpec(name, keys, values, temporal) ==
    [name |-> name, keys |-> keys, values |-> values, temporal |-> temporal]

rel_spec == RelationSpec("rel", <<"a">>, <<"b">>, FALSE)
rel_rev_spec == RelationSpec("rel_rev", <<"b", "a">>, <<>>, FALSE)
airport_spec == RelationSpec("airport", <<"a">>, <<"b", "c">>, FALSE)
hos_spec == RelationSpec("hos", <<"a", "b">>, <<"c">>, TRUE)

Specs == {rel_spec, rel_rev_spec, airport_spec, hos_spec}

ToSet(seq) == {seq[i] : i \in 1..Len(seq)}

\* RelationSpec.schema
schema(spec) ==
    LET keys_str ==
            Join([i \in 1..Len(spec.keys) |->
                    IF spec.temporal /\ spec.keys[i] = spec.keys[Len(spec.keys)]
                    THEN <<spec.keys[i], ": Validity">>
                    ELSE <<spec.keys[i]>>], COMMA)
    IN IF spec.values # <<>>
       THEN keys_str \o <<" => ">> \o Join(Names(spec.values), COMMA)
       ELSE keys_str

\* a dict as a sequence of (key, value) entries in insertion order
DictSet(d, k, v) ==
    IF \E i \in 1..Len(d) : d[i].k = k
    THEN [i \in 1..Len(d) |-> IF d[i].k = k THEN [k |-> k, v |-> v] ELSE d[i]]
    ELSE Append(d, [k |-> k, v |-> v])

RECURSIVE DictUpdate(_, _)
DictUpdate(d, more) ==
    IF more = <<>> THEN d
    ELSE DictUpdate(DictSet(d, Head(more).k, Head(more).v), Tail(more))

\* order is None, a string, or a list of strings; the numbers are None or an int
QueryOptions(order, offset, limit, timeout, sleep, assert_, extra) ==
    [given |-> TRUE, order |-> order, offset |-> offset, limit |-> limit,
     timeout |-> timeout, sleep |-> sleep, assert_ |-> assert_, extra |-> extra]

NoOrder == [t |-> "none", l |-> <<>>]
OrderStr(s) == [t |-> "str", l |-> <<s>>]
OrderList(l) == [t |-> "list", l |-> l]

\* options=None
NoOptions ==
    [given |-> FALSE, order |-> NoOrder, offset |-> NoneV, limit |-> NoneV,
     timeout |-> NoneV, sleep |-> NoneV, assert_ |-> NoneV, extra |-> <<>>]

\* QueryOptions.as_dict: the values are kept as text (they are only ever rendered)
as_dict(o) ==
    LET o1 == IF o.order.t = "list" /\ o.order.l # <<>>
              THEN <<[k |-> "order", v |-> Join(Names(o.order.l), COMMA)]>>
              ELSE IF o.order.t = "str" /\ o.order.l # <<"">>
              THEN <<[k |-> "order", v |-> o.order.l]>>
              ELSE <<>>
        o2 == IF o.offset # NoneV THEN Append(o1, [k |-> "offset", v |-> PyStr(o.offset)]) ELSE o1
        o3 == IF o.limit # NoneV THEN Append(o2, [k |-> "limit", v |-> PyStr(o.limit)]) ELSE o2
        o4 == IF o.timeout # NoneV THEN Append(o3, [k |-> "timeout", v |-> PyStr(o.timeout)]) ELSE o3
        o5 == IF o.sleep # NoneV THEN Append(o4, [k |-> "sleep", v |-> PyStr(o.sleep)]) ELSE o4
        o6 == IF o.assert_ # NoneV THEN Append(o5, [k |-> "assert", v |-> PyStr(o.assert_)]) ELSE o5
    IN DictUpdate(o6, o.extra)

\* "\n".join(f":{k} {v}" for k, v in opts.items())
OptionLines(opts) ==
    Join([i \in 1..Len(opts) |-> <<":", opts[i].k, " ">> \o opts[i].v], NL)

ChainQuery(query, options) == [query |-> query, options |-> options]

\* ChainQuery.to_script
to_script(q) ==
    LET opts == IF q.options.given THEN as_dict(q.options) ELSE <<>>
    IN <<"{\n">> \o q.query
       \o (IF opts # <<>> THEN NL \o OptionLines(opts) ELSE <<>>)
       \o <<"\n}">>

-----------------------------------------------------------------------------
(* Rows, and how a call ends *)

Cols == {"a", "b", "c"}
ColVal(c) ==
    CASE c = "a" -> IntV(1)
      [] c = "b" -> StrV(<<"x">>)
      [] c = "c" -> BoolV(TRUE)

\* an element of a row list: a dict (a mapping from column names), or not one
DictItem(kv) == [isdict |-> TRUE, kv |-> kv]
NotADict == [isdict |-> FALSE, kv |-> <<>>]

Mappings == {[c \in D |-> ColVal(c)] : D \in SUBSET Cols}
Items == {DictItem(kv) : kv \in Mappings} \cup {NotADict}

\* the data argument: one dict, or a list
OneDict(kv) == [kind |-> "dict", d |-> kv, l |-> <<>>]
AList(l) == [kind |-> "list", d |-> <<>>, l |-> l]

RECURSIVE ListsUpTo(_, _)
ListsUpTo(S, n) ==
    IF n = 0 THEN {<<>>}
    ELSE LET shorter == ListsUpTo(S, n - 1)
         IN shorter \cup {Append(l, x) : l \in {y \in shorter : Len(y) = n - 1}, x \in S}

DataArgs ==
    {OneDict(kv) : kv \in Mappings} \cup {AList(l) : l \in ListsUpTo(Items, MaxRows)}

\* if isinstance(data, dict): data = [data]
AsList(data) == IF data.kind = "dict" THEN <<DictItem(data.d)>> ELSE data.l

NoResult == [kind |-> "none", what |-> "", missing |-> {}, row |-> NotADict, err |-> ""]
Returned == [kind |-> "ok", what |-> "", missing |-> {}, row |-> NotADict, err |-> ""]
ValueError(what, missing, row) ==
    [kind |-> "ValueError", what |-> what, missing |-> missing, row |-> row, err |-> ""]
ClientError(e) ==
    [kind |-> "ClientError", what |-> "", missing |-> {}, row |-> NotADict, err |-> e]

Raised(r) == r.kind \in {"ValueError", "ClientError"}

-----------------------------------------------------------------------------
(* The mutation builder *)

\* build_mutation_spec
build_mutation_spec(spec) ==
    LET keys_str == Join(Names(spec.keys), COMMA)
    IN IF spec.values # <<>>
       THEN <<"{">> \o keys_str \o <<" => ">> \o Join(Names(spec.values), COMMA) \o <<"}">>
       ELSE <<"{">> \o keys_str \o <<"}">>

\* row.get(col, None)
RowGet(row, col) == IF col \in DOMAIN row.kv THEN row.kv[col] ELSE NoneV

\* a faulty variant: only the first row is validated
check_first_row_only(required_keys, data, what) ==
    LET row == Head(data)
    IN IF data = <<>> THEN Returned
       ELSE IF ~row.isdict THEN ValueError("notdict", {}, row)
       ELSE IF required_keys \ DOMAIN row.kv # {}
       THEN ValueError(what, required_keys \ DOMAIN row.kv, row)
       ELSE Returned

\* a faulty variant: the error names all required keys, not the missing ones
RECURSIVE check_names_all_keys(_, _, _)
check_names_all_keys(required_keys, data, what) ==
    IF data = <<>> THEN Returned
    ELSE LET row == Head(data)
         IN IF ~row.isdict THEN ValueError("notdict", {}, row)
            ELSE IF required_keys \ DOMAIN row.kv # {}
            THEN ValueError(what, required_keys, row)
            ELSE check_names_all_keys(required_keys, Tail(data), what)

\* the validation loop of mutate_relation and of remove_rows: the first row that
\* is not a dict or lacks a key raises; Returned when every row passes
RECURSIVE check_rows(_, _, _)
check_rows(required_keys, data, what) ==
    IF data = <<>> THEN Returned
    ELSE LET row == Head(data)
             missing_keys == required_keys \ DOMAIN row.kv
         IN IF ~row.isdict THEN ValueError("notdict", {}, row)
            ELSE IF missing_keys # {} THEN ValueError(what, missing_keys, row)
            ELSE check_rows(required_keys, Tail(data), what)

\* a faulty variant: the values are rendered with str() instead of format_value
RenderRowsUnformatted(data, columns) ==
    [i \in 1..Len(data) |->
        <<"[">> \o Join([j \in 1..Len(columns) |-> PyStr(RowGet(data[i], columns[j]))],
                        COMMA) \o <<"]">>]

\* the rows of the constant rule over the given columns
RenderRows(data, columns) ==
    [i \in 1..Len(data) |->
        <<"[">> \o Join([j \in 1..Len(columns) |-> format_value(RowGet(data[i], columns[j]))],
                        COMMA) \o <<"]">>]

ConstantRule(columns, rows) ==
    <<"?[">> \o Join(Names(columns), COMMA) \o <<"] <- [">> \o Join(rows, COMMA) \o <<"]">>

\* mutate_relation up to the call of script: the error raised, or the script built
mutate_relation_script(op_name, relation, spec, data0, returning) ==
    LET data == AsList(data0)
        columns == spec.keys \o spec.values
        checked == check_rows(ToSet(spec.keys), data, "missing in row")
        script == ConstantRule(columns, RenderRows(data, columns))
                  \o NL \o <<":", op_name, " ", relation, " ">> \o build_mutation_spec(spec)
                  \o (IF returning THEN <<" :returning">> ELSE <<>>)
    IN IF data = <<>> THEN [raise |-> ValueError("empty data", {}, NotADict), script |-> <<>>]
       ELSE IF checked # Returned THEN [raise |-> checked, script |-> <<>>]
       ELSE [raise |-> NoResult, script |-> script]

\* remove_rows up to the call of script
remove_rows_script(relation, spec, keys0, returning) ==
    LET keys == AsList(keys0)
        key_columns == spec.keys
        checked == check_rows(ToSet(key_columns), keys, "missing in key")
        script == ConstantRule(key_columns, RenderRows(keys, key_columns))
                  \o NL \o <<":", "rm", " ", relation, " ">>
                  \o <<"{">> \o Join(Names(key_columns), COMMA) \o <<"}">>
                  \o (IF returning THEN <<" :returning">> ELSE <<>>)
    IN IF keys = <<>> THEN [raise |-> ValueError("empty keys", {}, NotADict), script |-> <<>>]
       ELSE IF checked # Returned THEN [raise |-> checked, script |-> <<>>]
       ELSE [raise |-> NoResult, script |-> script]

-----------------------------------------------------------------------------
(* The relation-access and rule builders *)

\* where=None
NoWhere == [given |-> FALSE, kv |-> <<>>]
Where(kv) == [given |-> TRUE, kv |-> kv]

\* build_stored_relation_access
build_stored_relation_access(name, columns, where, validity) ==
    LET col_reprs ==
            [i \in 1..Len(columns) |->
                IF where.given /\ columns[i] \in DOMAIN where.kv
                THEN <<columns[i], ": ">> \o format_value(where.kv[columns[i]])
                ELSE <<columns[i]>>]
        with_validity ==
            IF validity # NoneV /\ Len(columns) > 0
            THEN [col_reprs EXCEPT ![Len(columns)] =
                      <<columns[Len(columns)], " @ ">> \o format_validity(validity)]
            ELSE col_reprs
    IN <<"*", name, "{">> \o Join(with_validity, COMMA) \o <<"}">>

\* build_inline_rule
build_inline_rule(head_vars, atoms, query_options, rule_name) ==
    LET head == <<rule_name, "[">> \o Join(Names(head_vars), COMMA) \o <<"] :=">>
        rule == head \o <<" ">> \o Join(atoms, COMMA)
    IN IF query_options # <<>> THEN rule \o NL \o OptionLines(query_options) ELSE rule

\* query up to the call of script; conditions is a list of raw fragments (None is
\* rendered like the empty list)
query_script(select, from_, where, conditions, options, validity) ==
    LET relation_access == build_stored_relation_access(from_, select, where, validity)
        atoms == <<relation_access>> \o [i \in 1..Len(conditions) |-> <<conditions[i]>>]
        opts == IF options.given THEN as_dict(options) ELSE <<>>
    IN build_inline_rule(select, atoms, opts, "?")

\* chain_queries up to the call of script
chain_queries_script(queries) ==
    Join([i \in 1..Len(queries) |-> to_script(queries[i])], NL)

\* set_triggers up to the call of script
set_triggers_script(relation, on_put, on_rm, on_replace) ==
    LET triggers ==
            [i \in 1..Len(on_put) |-> <<"on put { ", on_put[i], " }">>]
            \o [i \in 1..Len(on_rm) |-> <<"on rm { ", on_rm[i], " }">>]
            \o [i \in 1..Len(on_replace) |-> <<"on replace { ", on_replace[i], " }">>]
    IN IF triggers = <<>> THEN <<"::set_triggers ", relation>>
       ELSE <<"::set_triggers ", relation>> \o NL \o Join(triggers, NL)

-----------------------------------------------------------------------------
(* The client, and the two ways the facade reaches it *)

ClientErrors == {"QueryError", "Timeout"}
Replies == {"ok"} \cup ClientErrors

\* one call received by the client, with what the client answered
Request(api, text, data, reply) == [api |-> api, text |-> text, data |-> data, reply |-> reply]

Outcome(s, l, r) == [sent |-> s, logged |-> l, result |-> r]

\* a faulty variant: the failure is logged and swallowed
script_swallows_error(text, reply) ==
    Outcome(<<Request("run", text, <<>>, reply)>>,
            IF reply = "ok" THEN <<>> ELSE <<reply>>,
            Returned)

\* CozoDB.script: one client.run; a failure is logged and re-raised
script(text, reply) ==
    Outcome(<<Request("run", text, <<>>, reply)>>,
            IF reply = "ok" THEN <<>> ELSE <<reply>>,
            IF reply = "ok" THEN Returned ELSE ClientError(reply))

\* the tail of put and of remove: one client.put or client.rm, no try/except
direct(api, relation, rows, reply) ==
    Outcome(<<Request(api, <<relation>>, rows, reply)>>,
            <<>>,
            IF reply = "ok" THEN Returned ELSE ClientError(reply))

\* row.setdefault(validity_field, validity_value)
SetDefault(kv, k, v) ==
    IF k \in DOMAIN kv THEN kv
    ELSE [c \in DOMAIN kv \cup {k} |-> IF c \in DOMAIN kv THEN kv[c] ELSE v]

\* put up to the call of client.put: validity_field is "" when not given
put_rows(data0, validity_field, validity_value) ==
    LET data == AsList(data0)
    IN IF validity_field # "" /\ validity_value # NoneV
       THEN [i \in 1..Len(data) |->
                DictItem(SetDefault(data[i].kv, validity_field, validity_value))]
       ELSE data

\* CozoDB.close: one client.close
close_outcome == Outcome(<<Request("close", <<>>, <<>>, "ok")>>, <<>>, Returned)

\* a faulty variant: __exit__ returns True
CozoDB_exit_suppresses == [sent |-> close_outcome.sent, suppress |-> TRUE]

\* CozoDB.__exit__: closes, and returns None, so the exception is not suppressed
CozoDB_exit_outcome == [sent |-> close_outcome.sent, suppress |-> FALSE]

-----------------------------------------------------------------------------
(* The facade as a state machine: the caller constructs a CozoDB, enters a  *)
(* with block, makes calls one at a time, and leaves the block.  Only       *)
(* logger.error is recorded; logger.debug is not.                           *)

NoCall == [m |-> "none"]

Init ==
    /\ scope = "plain"
    /\ phase = "open"
    /\ requests = 0
    /\ call = NoCall
    /\ sent = <<>>
    /\ logged = <<>>
    /\ result = NoResult
    /\ propagated = NoResult
    /\ fin = NoneV /\ fout = <<>> /\ fpc = "off"
    /\ tpc = "off" /\ tops = <<>> /\ terr = ""

\* the caller is between two calls inside the block
Callable ==
    /\ scope = "with"
    /\ phase = "open"
    /\ call = NoCall
    /\ requests < MaxRequests

\* the call c ends with outcome out
Finish(c, out) ==
    /\ call' = c
    /\ sent' = out.sent
    /\ logged' = out.logged
    /\ result' = out.result
    /\ requests' = requests + Len(out.sent)
    /\ UNCHANGED <<scope, phase, propagated, fmtVars, txnVars>>

\* the call c raises err before anything is sent
Raise(c, err) == Finish(c, Outcome(<<>>, <<>>, err))

RawScripts == {<<"?[] <- [['hello', 'world', 'Cozo!']]">>, <<"?[b, a] := *rel_rev{b, a}">>}
Queries == {<<>>, <<"?[a, b] <- [[1, 'one']]">>}
Relation == "airport"

RawScript ==
    /\ Callable
    /\ \E text \in RawScripts, reply \in Replies :
          Finish([m |-> "script", text |-> text], script(text, reply))

create_relation ==
    /\ Callable
    /\ \E spec \in Specs, query \in Queries, reply \in Replies :
          LET op == <<":create ", spec.name, " {">> \o schema(spec) \o <<"}">>
                    \o (IF query # <<>> THEN NL \o query ELSE <<>>)
          IN Finish([m |-> "create_relation", spec |-> spec, query |-> query],
                    script(op, reply))

replace_relation ==
    /\ Callable
    /\ \E spec \in Specs, query \in Queries \ {<<>>}, reply \in Replies :
          LET op == <<":replace ", spec.name, " {">> \o schema(spec) \o <<"}">> \o NL \o query
          IN Finish([m |-> "replace_relation", spec |-> spec, query |-> query],
                    script(op, reply))

\* mutate_relation, as called directly or by one of its six wrappers
Mutate(m, op_name, spec, data, returning, reply) ==
    LET built == mutate_relation_script(op_name, Relation, spec, data, returning)
        c == [m |-> m, op_name |-> op_name, relation |-> Relation, spec |-> spec,
              data |-> data, returning |-> returning]
    IN IF Raised(built.raise)
       THEN reply = "ok" /\ Raise(c, built.raise)
       ELSE Finish(c, script(built.script, reply))

OpNames == {"put", "update"}

mutate_relation ==
    /\ Callable
    /\ \E op_name \in OpNames, spec \in Specs, data \in DataArgs, reply \in Replies :
          Mutate("mutate_relation", op_name, spec, data, FALSE, reply)

put_relation ==
    /\ Callable
    /\ \E spec \in Specs, data \in DataArgs, returning \in BOOLEAN, reply \in Replies :
          Mutate("put_relation", "put", spec, data, returning, reply)

insert_relation ==
    /\ Callable
    /\ \E spec \in Specs, data \in DataArgs, returning \in BOOLEAN, reply \in Replies :
          Mutate("insert_relation", "insert", spec, data, returning, reply)

update_relation ==
    /\ Callable
    /\ \E spec \in Specs, data \in DataArgs, returning \in BOOLEAN, reply \in Replies :
          Mutate("update_relation", "update", spec, data, returning, reply)

delete_relation ==
    /\ Callable
    /\ \E spec \in Specs, data \in DataArgs, returning \in BOOLEAN, reply \in Replies :
          Mutate("delete_relation", "delete", spec, data, returning, reply)

ensure_relation ==
    /\ Callable
    /\ \E spec \in Specs, data \in DataArgs, returning \in BOOLEAN, reply \in Replies :
          Mutate("ensure_relation", "ensure", spec, data, returning, reply)

\* ensure_not_relation takes no returning argument
ensure_not_relation ==
    /\ Callable
    /\ \E spec \in Specs, data \in DataArgs, reply \in Replies :
          Mutate("ensure_not_relation", "ensure_not", spec, data, FALSE, reply)

remove_rows ==
    /\ Callable
    /\ \E spec \in Specs, keys \in DataArgs, returning \in BOOLEAN, reply \in Replies :
          LET built == remove_rows_script(Relation, spec, keys, returning)
              c == [m |-> "remove_rows", op_name |-> "rm", relation |-> Relation,
                    spec |-> spec, data |-> keys, returning |-> returning]
          IN IF Raised(built.raise)
             THEN reply = "ok" /\ Raise(c, built.raise)
             ELSE Finish(c, script(built.script, reply))

Selects == {<<>>, <<"a">>, <<"a", "b">>, <<"b", "c">>, <<"a", "b", "c">>}
Wheres == {NoWhere} \cup {Where(kv) : kv \in Mappings}
Validities == {NoneV, IntV(2019), StrV(<<"n", "o", "w">>)}
Conditions == {<<>>, <<"a > 0", "a < 9">>}
query_opts ==
    QueryOptions(OrderStr("a"), NoneV, IntV(5), IntV(60), NoneV, StrV(<<"none">>), <<>>)
OptionBags ==
    { NoOptions,
      QueryOptions(NoOrder, NoneV, NoneV, NoneV, NoneV, NoneV, <<>>),
      query_opts,
      QueryOptions(OrderList(<<"a", "-b">>), IntV(1), IntV(5), NoneV, IntV(2), NoneV,
                   <<[k |-> "limit", v |-> <<"3">>], [k |-> "x", v |-> <<"y">>]>>) }

query ==
    /\ Callable
    /\ \E select \in Selects, where \in Wheres, conditions \in Conditions,
          options \in OptionBags, validity \in Validities, reply \in Replies :
          Finish([m |-> "query", select |-> select, from_ |-> Relation, where |-> where,
                  conditions |-> conditions, options |-> options, validity |-> validity],
                 script(query_script(select, Relation, where, conditions, options, validity),
                        reply))

ChainQueries ==
    { ChainQuery(<<"?[a] <- [[1]]">>, NoOptions),
      ChainQuery(<<"?[a, b] := *rel{a, b}">>, query_opts) }

\* a faulty variant: every query of the chain is sent as a request of its own
chain_queries_one_by_one(queries, reply) ==
    Outcome([i \in 1..Len(queries) |-> Request("run", to_script(queries[i]), <<>>, reply)],
            IF reply = "ok" THEN <<>> ELSE <<reply>>,
            IF reply = "ok" THEN Returned ELSE ClientError(reply))

\* CozoDB.chain_queries: the scripts joined into one, sent once
chain_queries_outcome(queries, reply) == script(chain_queries_script(queries), reply)

chain_queries ==
    /\ Callable
    /\ \E queries \in ListsUpTo(ChainQueries, 2), reply \in Replies :
          Finish([m |-> "chain_queries", queries |-> queries],
                 chain_queries_outcome(queries, reply))

IndexColumns == {<<"b">>, <<"b", "a", "c">>}

create_index ==
    /\ Callable
    /\ \E columns \in IndexColumns, reply \in Replies :
          LET text == <<"::index create ", Relation, ":", "idx", " {">>
                      \o Join(Names(columns), COMMA) \o <<"}">>
          IN Finish([m |-> "create_index", relation |-> Relation, index_name |-> "idx",
                     columns |-> columns],
                    script(text, reply))

drop_index ==
    /\ Callable
    /\ \E reply \in Replies :
          Finish([m |-> "drop_index", relation |-> Relation, index_name |-> "idx"],
                 script(<<"::index drop ", Relation, ":", "idx">>, reply))

TriggerLists == {<<>>, <<"?[a] <- [[1]]">>, <<"?[a] <- [[1]]", "?[b] <- [[2]]">>}

set_triggers ==
    /\ Callable
    /\ \E on_put \in TriggerLists, on_rm \in TriggerLists, on_replace \in TriggerLists,
          reply \in Replies :
          Finish([m |-> "set_triggers", relation |-> Relation, on_put |-> on_put,
                  on_rm |-> on_rm, on_replace |-> on_replace],
                 script(set_triggers_script(Relation, on_put, on_rm, on_replace), reply))

drop_relation ==
    /\ Callable
    /\ \E reply \in Replies :
          Finish([m |-> "drop_relation", name |-> Relation],
                 script(<<"::remove ", Relation>>, reply))

\* the rows given to the two direct paths are dicts
DictArgs ==
    {OneDict(kv) : kv \in Mappings}
    \cup {AList(l) : l \in ListsUpTo({DictItem(kv) : kv \in Mappings}, MaxRows)}

put ==
    /\ Callable
    /\ \E data \in DictArgs, vf \in {"", "c"}, reply \in Replies :
          LET vv == IF vf = "" THEN NoneV ELSE PairV(2019, TRUE)
          IN Finish([m |-> "put", relation |-> Relation, data |-> data,
                     validity_field |-> vf, validity_value |-> vv],
                    direct("put", Relation, put_rows(data, vf, vv), reply))

remove ==
    /\ Callable
    /\ \E keys \in DictArgs, reply \in Replies :
          Finish([m |-> "remove", relation |-> Relation, data |-> keys],
                 direct("rm", Relation, AsList(keys), reply))

\* db.close() on a CozoDB used without a with block
close ==
    /\ scope = "plain"
    /\ phase = "open"
    /\ call' = [m |-> "close"]
    /\ sent' = close_outcome.sent
    /\ logged' = close_outcome.logged
    /\ result' = close_outcome.result
    /\ requests' = requests + Len(close_outcome.sent)
    /\ phase' = "closed"
    /\ UNCHANGED <<scope, propagated, fmtVars, txnVars>>

\* CozoDB.__enter__: returns self
CozoDB_enter ==
    /\ scope = "plain"
    /\ phase = "open"
    /\ scope' = "with"
    /\ UNCHANGED <<phase, requests, call, sent, logged, result, propagated, fmtVars, txnVars>>

\* the call returned and the caller goes on to its next statement
Proceed ==
    /\ scope = "with"
    /\ result.kind = "ok"
    /\ call' = NoCall /\ sent' = <<>> /\ logged' = <<>> /\ result' = NoResult
    /\ UNCHANGED <<scope, phase, requests, propagated, fmtVars, txnVars>>

\* the call raised inside a try whose except clause handles the error
Catch ==
    /\ scope = "with"
    /\ Raised(result)
    /\ call' = NoCall /\ sent' = <<>> /\ logged' = <<>> /\ result' = NoResult
    /\ UNCHANGED <<scope, phase, requests, propagated, fmtVars, txnVars>>

\* the block is left: at its end, or by the exception the last call raised
CozoDB_exit ==
    /\ scope = "with"
    /\ call = NoCall \/ Raised(result)
    /\ call' = [m |-> "__exit__"]
    /\ sent' = CozoDB_exit_outcome.sent
    /\ logged' = <<>>
    /\ requests' = requests + Len(CozoDB_exit_outcome.sent)
    /\ phase' = IF Len(CozoDB_exit_outcome.sent) > 0 THEN "closed" ELSE phase
    /\ scope' = "exited"
    /\ propagated' = IF Raised(result) /\ ~CozoDB_exit_outcome.suppress
                      THEN result ELSE NoResult
    /\ UNCHANGED <<result, fmtVars, txnVars>>

Next ==
    \/ CozoDB_enter
    \/ RawScript
    \/ create_relation
    \/ replace_relation
    \/ mutate_relation
    \/ put_relation
    \/ insert_relation
    \/ update_relation
    \/ delete_relation
    \/ ensure_relation
    \/ ensure_not_relation
    \/ remove_rows
    \/ query
    \/ chain_queries
    \/ create_index
    \/ drop_index
    \/ set_triggers
    \/ drop_relation
    \/ put
    \/ remove
    \/ Proceed
    \/ Catch
    \/ CozoDB_exit
    \/ close

Spec == Init /\ [][Next]_vars

-----------------------------------------------------------------------------
(* The formatters alone *)

FmtSpecInit ==
    /\ FmtInit
    /\ scope = "plain" /\ phase = "open" /\ requests = 0 /\ call = NoCall
    /\ sent = <<>> /\ logged = <<>> /\ result = NoResult /\ propagated = NoResult
    /\ tpc = "off" /\ tops = <<>> /\ terr = ""

FmtNext == FormatValue \/ FormatValidity

FmtSpec == FmtSpecInit /\ [][FmtNext]_vars

-----------------------------------------------------------------------------
(* Properties of the validation of mutations *)

MutationMethods ==
    {"mutate_relation", "put_relation", "insert_relation", "update_relation",
     "delete_relation", "ensure_relation", "ensure_not_relation", "remove_rows"}

\* the row lacks a declared key column
Lacks(spec, item) == \E k \in ToSet(spec.keys) : k \notin DOMAIN item.kv

AllMappings(rows) == \A i \in 1..Len(rows) : rows[i].isdict

FirstLacking(spec, rows) ==
    CHOOSE i \in 1..Len(rows) :
        Lacks(spec, rows[i]) /\ \A j \in 1..(i - 1) : ~Lacks(spec, rows[j])

\* C1: a mutation or removal call whose rows are all mappings, one of them lacking a
\* declared key column, raises a ValueError that names exactly the key columns
\* missing from the first such row, and that row.
C1_MissingKeysNamedExactly ==
    call.m \in MutationMethods =>
        LET rows == AsList(call.data)
        IN (rows # <<>> /\ AllMappings(rows) /\ \E i \in 1..Len(rows) : Lacks(call.spec, rows[i]))
           => LET row == rows[FirstLacking(call.spec, rows)]
              IN /\ result.kind = "ValueError"
                 /\ result.what \in {"missing in row", "missing in key"}
                 /\ result.missing = {k \in ToSet(call.spec.keys) : k \notin DOMAIN row.kv}
                 /\ result.row = row

\* keys [b, a]; the second row of the list has a but not b
C1_Witness ==
    /\ call.m = "remove_rows"
    /\ call.spec = rel_rev_spec
    /\ call.data = AList(<<DictItem([c \in {"a", "b"} |-> ColVal(c)]),
                           DictItem([c \in {"a", "c"} |-> ColVal(c)])>>)
    /\ result.kind = "ValueError"
    /\ result.missing = {"b"}

ValidationFails(spec, rows) ==
    \/ rows = <<>>
    \/ \E i \in 1..Len(rows) : ~rows[i].isdict \/ Lacks(spec, rows[i])

\* C2: a mutation or removal call that fails validation (empty list, a row that is
\* not a mapping, a missing key at any position) raises before anything is sent:
\* the call issues no request and the client's request count is unchanged.
C2_NothingSentOnValidationFailure ==
    [][(call'.m \in MutationMethods /\ call' # call
            /\ ValidationFails(call'.spec, AsList(call'.data)))
         => /\ result'.kind = "ValueError"
            /\ sent' = <<>>
            /\ requests' = requests]_vars

\* one request was made before; then a list whose first row is valid and whose
\* second row lacks the key is rejected
C2_Witness ==
    /\ call.m = "insert_relation"
    /\ call.spec = rel_spec
    /\ call.data = AList(<<DictItem([c \in {"a", "b"} |-> ColVal(c)]),
                           DictItem([c \in {"b"} |-> ColVal(c)])>>)
    /\ result.kind = "ValueError"
    /\ requests = 1
    /\ sent = <<>>

-----------------------------------------------------------------------------
(* Properties of the pass-through *)

ScriptMethods ==
    {"script", "create_relation", "replace_relation", "query", "chain_queries",
     "create_index", "drop_index", "set_triggers", "drop_relation"} \cup MutationMethods
DirectMethods == {"put", "remove"}

ClientFailed == sent # <<>> /\ sent[Len(sent)].reply \in ClientErrors

\* C4 as stated: on every entry point that reaches the client, the direct paths put
\* and remove included, a client error is logged, then raised unchanged, after
\* exactly one call of the client.
C4_AsStated ==
    (call.m \in ScriptMethods \cup DirectMethods /\ ClientFailed)
        => /\ Len(sent) = 1
           /\ result = ClientError(sent[1].reply)
           /\ logged = <<sent[1].reply>>

\* C4 amended: the error is raised unchanged after exactly one call of the client
\* on every entry point; it is logged on the entry points that go through script,
\* and not logged on the direct paths put and remove.
C4_ClientErrorPropagates ==
    (call.m \in ScriptMethods \cup DirectMethods /\ ClientFailed)
        => /\ Len(sent) = 1
           /\ result = ClientError(sent[1].reply)
           /\ logged = IF call.m \in DirectMethods THEN <<>> ELSE <<sent[1].reply>>

C4_Witness ==
    /\ call.m = "query"
    /\ Len(sent) = 1
    /\ sent[1].reply = "Timeout"
    /\ result = ClientError("Timeout")
    /\ logged = <<"Timeout">>

\* C5: leaving the with block, normally or by an exception, closes the client, and
\* the exception raised inside the block leaves it.
C5_ReleasedOnExit ==
    scope = "exited"
        => /\ phase = "closed"
           /\ Len(sent) = 1 /\ sent[1].api = "close"
           /\ propagated = IF Raised(result) THEN result ELSE NoResult

C5_Witness ==
    /\ scope = "exited"
    /\ phase = "closed"
    /\ propagated.kind = "ValueError"
    /\ requests = 2

IsCall(c) == c # NoCall

\* C6: every call of an entry point that passes validation issues exactly one
\* request (a call that fails validation issues none), and the request count does
\* not change between calls.
C6_OneRequestPerCall ==
    [][IF IsCall(call') /\ call' # call
       THEN LET n == IF call'.m \in MutationMethods
                          /\ ValidationFails(call'.spec, AsList(call'.data))
                     THEN 0 ELSE 1
            IN Len(sent') = n /\ requests' = requests + n
       ELSE requests' = requests]_vars

C6_Witness ==
    /\ call.m = "chain_queries"
    /\ Len(call.queries) = 2
    /\ Len(sent) = 1
    /\ result.kind = "ok"
    /\ requests = 2

-----------------------------------------------------------------------------
(* Properties of the scripts sent *)

Contains(text, sub) ==
    \E i \in 1..(Len(text) - Len(sub) + 1) : SubSeq(text, i, i + Len(sub) - 1) = sub

\* C7 as stated: the script query sends constrains every column of where to its
\* value, whether or not the column is selected.
C7_EveryWhereEnforced ==
    (call.m = "query" /\ call.validity = NoneV /\ call.where.given /\ sent # <<>>)
        => \A col \in DOMAIN call.where.kv :
              Contains(sent[1].text, <<col, ": ">> \o format_value(call.where.kv[col]))

\* C8 as stated: with a validity, the atom is the atom rendered without it, with
\* " @ <validity>" added at the end of the last column's entry, which is just
\* before the closing brace.
C8_ValidityAppended ==
    (call.m = "query" /\ call.validity # NoneV /\ call.select # <<>> /\ sent # <<>>)
        => LET plain == build_stored_relation_access(call.from_, call.select,
                                                     call.where, NoneV)
               expected == SubSeq(plain, 1, Len(plain) - 1)
                           \o <<" @ ">> \o format_validity(call.validity) \o <<"}">>
           IN Contains(sent[1].text, expected)

\* the columns in the head of a constant rule ?[cols] <- [rows]
HeadCols(text) ==
    LET k == CHOOSE i \in 1..Len(text) :
                 text[i] = "] <- [" /\ \A j \in 1..(i - 1) : text[j] # "] <- ["
    IN {text[j] : j \in 2..(k - 1)} \ {", "}

\* C9 as stated: the script update_relation sends gives values to the key columns
\* and to the value columns the rows supply, and to no value column a row leaves
\* out.
C9_UpdateWritesOnlyGiven ==
    (call.m = "update_relation" /\ sent # <<>>)
        => \A i \in 1..Len(AsList(call.data)) :
              \A col \in ToSet(call.spec.values) :
                 col \notin DOMAIN AsList(call.data)[i].kv => col \notin HeadCols(sent[1].text)

-----------------------------------------------------------------------------
(* Properties of format_value *)

\* each quote preceded by one backslash, every other character copied
EscapedOnce(s) ==
    Flatten([i \in 1..Len(s) |-> IF s[i] = DQ THEN <<BS, DQ>> ELSE <<s[i]>>])

NoParse == [ok |-> FALSE, s |-> <<>>]

\* the body of a string literal read back by the engine's grammar: a backslash
\* starts an escape (of the characters used here, only \" and \\ are escapes),
\* and a quote that is not escaped is not part of the body
RECURSIVE Unescape(_)
Unescape(t) ==
    IF t = <<>> THEN [ok |-> TRUE, s |-> <<>>]
    ELSE IF Head(t) = DQ THEN NoParse
    ELSE IF Head(t) = BS
    THEN IF Len(t) >= 2 /\ t[2] \in {DQ, BS}
         THEN LET rest == Unescape(SubSeq(t, 3, Len(t)))
              IN IF rest.ok THEN [ok |-> TRUE, s |-> <<t[2]>> \o rest.s] ELSE NoParse
         ELSE NoParse
    ELSE LET rest == Unescape(Tail(t))
         IN IF rest.ok THEN [ok |-> TRUE, s |-> <<Head(t)>> \o rest.s] ELSE NoParse

ParseLiteral(lit) ==
    IF Len(lit) >= 2 /\ lit[1] = DQ /\ lit[Len(lit)] = DQ
    THEN Unescape(SubSeq(lit, 2, Len(lit) - 1))
    ELSE NoParse

\* C10 as stated: a string is rendered in double quotes with one backslash before
\* each quote and every other character copied, and reading the literal back
\* gives the string; a bool gives true or false and None gives null.
C10_FormatValueRoundTrips ==
    fpc = "value"
        => CASE fin.t = "str" ->
                    /\ fout = <<DQ>> \o EscapedOnce(fin.s) \o <<DQ>>
                    /\ ParseLiteral(fout) = [ok |-> TRUE, s |-> fin.s]
             [] fin.t = "bool" -> fout = <<IF fin.b THEN "true" ELSE "false">>
             [] fin.t = "none" -> fout = <<"null">>
             [] OTHER -> TRUE

-----------------------------------------------------------------------------
(* The scoped transaction.  main.py has no transaction entry point; the     *)
(* scope is modelled from its written description: a handle obtained from   *)
(* the client, statements run on it inside the block, and on leaving the    *)
(* block a commit, with an abort when the block raised or the commit failed.*)

TxOp(op, text, ok) == [op |-> op, text |-> text, ok |-> ok]

\* a faulty variant: the scope commits however the block was left
transaction_exit_always_commits(raised, commit_ok, abort_ok) ==
    IF commit_ok THEN <<TxOp("commit", <<>>, TRUE)>>
    ELSE <<TxOp("commit", <<>>, FALSE), TxOp("abort", <<>>, abort_ok)>>

\* the calls the scope makes on the handle when the block is left
transaction_exit(raised, commit_ok, abort_ok) ==
    IF raised THEN <<TxOp("abort", <<>>, abort_ok)>>
    ELSE IF commit_ok THEN <<TxOp("commit", <<>>, TRUE)>>
    ELSE <<TxOp("commit", <<>>, FALSE), TxOp("abort", <<>>, abort_ok)>>

TxInit ==
    /\ tpc = "idle" /\ tops = <<>> /\ terr = ""
    /\ scope = "plain" /\ phase = "open" /\ requests = 0 /\ call = NoCall
    /\ sent = <<>> /\ logged = <<>> /\ result = NoResult /\ propagated = NoResult
    /\ fin = NoneV /\ fout = <<>> /\ fpc = "off"

\* the scope is entered: the handle is obtained
TxBegin ==
    /\ tpc = "idle"
    /\ tpc' = "open"
    /\ UNCHANGED <<tops, terr, facadeVars, fmtVars>>

\* a statement is run on the handle; its failure raises inside the block
TxRun ==
    /\ tpc = "open"
    /\ Len(tops) < MaxStmts
    /\ \E text \in RawScripts \cup (Queries \ {<<>>}), reply \in Replies :
          /\ tops' = Append(tops, TxOp("run", text, reply = "ok"))
          /\ tpc' = IF reply = "ok" THEN "open" ELSE "raised"
          /\ terr' = IF reply = "ok" THEN terr ELSE reply
    /\ UNCHANGED <<facadeVars, fmtVars>>

\* the block raises an error of its own between two statements
TxBlockRaises ==
    /\ tpc = "open"
    /\ tpc' = "raised"
    /\ terr' = "BlockError"
    /\ UNCHANGED <<tops, facadeVars, fmtVars>>

\* the block is left
TxExit ==
    /\ tpc \in {"open", "raised"}
    /\ \E commit_ok \in BOOLEAN, abort_ok \in BOOLEAN :
          LET ops == transaction_exit(tpc = "raised", commit_ok, abort_ok)
              last == ops[Len(ops)]
          IN /\ tops' = tops \o ops
             /\ terr' = IF ~last.ok THEN IF last.op = "abort" THEN "AbortError" ELSE "CommitError"
                         ELSE IF tpc = "raised" THEN terr
                         ELSE IF Len(ops) > 1 THEN "CommitError" ELSE ""
    /\ tpc' = IF tpc = "raised" THEN "left by error" ELSE "left"
    /\ UNCHANGED <<facadeVars, fmtVars>>

TxNext == TxBegin \/ TxRun \/ TxBlockRaises \/ TxExit

TxSpec == TxInit /\ [][TxNext]_vars

TxOpsNamed(op) == {i \in 1..Len(tops) : tops[i].op = op}

\* C3: a scope left by an error raised in its block aborts and never commits; a
\* scope left normally attempts a commit, and attempts an abort after it exactly
\* when the commit failed.
C3_AbortOnRaise ==
    /\ tpc \in {"open", "raised"} => TxOpsNamed("commit") = {} /\ TxOpsNamed("abort") = {}
    /\ tpc = "left by error"
         => TxOpsNamed("commit") = {} /\ TxOpsNamed("abort") = {Len(tops)}
    /\ tpc = "left"
         => \E i \in 1..Len(tops) :
               /\ TxOpsNamed("commit") = {i}
               /\ IF tops[i].ok THEN TxOpsNamed("abort") = {} /\ i = Len(tops)
                  ELSE TxOpsNamed("abort") = {i + 1} /\ i + 1 = Len(tops)

\* a statement succeeded, the next one failed, and the scope was left
C3_Witness ==
    /\ tpc = "left by error"
    /\ Len(tops) = 3
    /\ tops[1].ok /\ ~tops[2].ok
    /\ tops[3].op = "abort"

-----------------------------------------------------------------------------
(* Properties of the mutation scripts *)

\* the parts with sep between each two
Separated(parts, sep) ==
    Flatten([i \in 1..Len(parts) |-> IF i = 1 THEN parts[i] ELSE sep \o parts[i]])

\* the directive each entry point stands for
OpOf(c) ==
    CASE c.m = "put_relation" -> "put"
      [] c.m = "insert_relation" -> "insert"
      [] c.m = "update_relation" -> "update"
      [] c.m = "delete_relation" -> "delete"
      [] c.m = "ensure_relation" -> "ensure"
      [] c.m = "ensure_not_relation" -> "ensure_not"
      [] c.m = "remove_rows" -> "rm"
      [] c.m = "mutate_relation" -> c.op_name

\* the literal of column col in a row: null when the row does not have it
Literal(item, col) ==
    IF col \in DOMAIN item.kv THEN format_value(item.kv[col]) ELSE <<"null">>

\* the script described: one tuple per row in input order over cols, one constant
\* rule, one directive with the given shape, and :returning when asked for
DescribedScript(c, cols, shape) ==
    LET rows == AsList(c.data)
        tuples == [i \in 1..Len(rows) |->
                     <<"[">> \o Separated([j \in 1..Len(cols) |-> Literal(rows[i], cols[j])],
                                          <<", ">>) \o <<"]">>]
    IN <<"?[">> \o Separated([j \in 1..Len(cols) |-> <<cols[j]>>], <<", ">>)
       \o <<"] <- [">> \o Separated(tuples, <<", ">>) \o <<"]">>
       \o <<"\n", ":", OpOf(c), " ", c.relation, " ">> \o shape
       \o (IF c.returning THEN <<" :returning">> ELSE <<>>)

KeysShape(spec) ==
    <<"{">> \o Separated([j \in 1..Len(spec.keys) |-> <<spec.keys[j]>>], <<", ">>) \o <<"}">>

KeysValuesShape(spec) ==
    <<"{">> \o Separated([j \in 1..Len(spec.keys) |-> <<spec.keys[j]>>], <<", ">>)
    \o <<" => ">>
    \o Separated([j \in 1..Len(spec.values) |-> <<spec.values[j]>>], <<", ">>) \o <<"}">>

\* C11 as stated: the script of a mutation that passes validation is the constant
\* rule over the key and value columns (rows in input order, null for an absent
\* value column, undeclared fields ignored) followed by the directive
\* :<op> <relation> {keys => values}, with :returning exactly when asked for;
\* remove_rows sends the same over the key columns with :rm and {keys}.
C11_AsStated ==
    (call.m \in MutationMethods /\ sent # <<>>)
        => /\ Len(sent) = 1
           /\ sent[1].text =
                 IF call.m = "remove_rows"
                 THEN DescribedScript(call, call.spec.keys, KeysShape(call.spec))
                 ELSE DescribedScript(call, call.spec.keys \o call.spec.values,
                                      KeysValuesShape(call.spec))

\* C11 amended: as stated, except that for a RelationSpec with no value columns
\* the directive of a mutation is :<op> <relation> {keys}, without " => ".
C11_MutationScript ==
    (call.m \in MutationMethods /\ sent # <<>>)
        => /\ Len(sent) = 1
           /\ sent[1].text =
                 IF call.m = "remove_rows"
                 THEN DescribedScript(call, call.spec.keys, KeysShape(call.spec))
                 ELSE DescribedScript(call, call.spec.keys \o call.spec.values,
                                      IF call.spec.values = <<>>
                                      THEN KeysShape(call.spec)
                                      ELSE KeysValuesShape(call.spec))

\* keys [a], values [b]: the first row has both, the second has a and the
\* undeclared c but not b; returning is asked for
C11_Witness ==
    /\ call.m = "put_relation"
    /\ call.spec = rel_spec
    /\ call.data = AList(<<DictItem([c \in {"a", "b"} |-> ColVal(c)]),
                           DictItem([c \in {"a", "c"} |-> ColVal(c)])>>)
    /\ call.returning
    /\ result.kind = "ok"
    /\ sent[1].text =
          <<"?[", "a", ", ", "b", "] <- [",
            "[", "1", ", ", DQ, "x", DQ, "]", ", ", "[", "1", ", ", "null", "]", "]",
            "\n", ":", "put", " ", "airport", " ", "{", "a", " => ", "b", "}",
            " :returning">>

====
